---- MODULE Spec2Model ----
(***************************************************************************)
(* File manager (src/unnamed/part_000, src/index.js): a readline-driven    *)
(* command interpreter with a tracked working directory `cwd`.             *)
(*                                                                         *)
(* Strings are tuples of glyphs.  The glyphs "/", "." and " " are the path *)
(* separator, the dot and the blank; every other glyph is an ordinary      *)
(* character (or a run of ordinary characters).  The host is POSIX: the    *)
(* functions of node's `path` module are modelled by their posix versions. *)
(***************************************************************************)
EXTENDS Integers, Sequences, FiniteSets, TLC

\* ------------------------------------------------------------------ bounds
\* Number of input lines a session delivers; line k is handled by handler k.
MaxLines == 2
\* Number of injected collaborator faults (EACCES, EIO, EXDEV, ...) per session.
MaxFaults == 1
\* Length of the path arguments that path resolution is tried on.
MaxPathLen == 4

H == 1..MaxLines

\* ------------------------------------------------------------------ strings
Last(s) == s[Len(s)]
Front(s) == SubSeq(s, 1, Len(s) - 1)

\* The value of x, computed once and handed to F (a local constant of the source).
Let1(x, F(_)) == CHOOSE v \in {F(y) : y \in {x}} : TRUE

\* The k-th smallest element of a set of numbers.
Kth(S, k) == CHOOSE i \in S : Cardinality({j \in S : j < i}) = k - 1

\* String.prototype.startsWith
StartsWith(s, pre) ==
  /\ Len(pre) <= Len(s)
  /\ SubSeq(s, 1, Len(pre)) = pre

\* String.prototype.split on one separator glyph: the pieces between separators.
SplitOn(s, sep) ==
  LET seps == {i \in 1..Len(s) : s[i] = sep}
      n == Cardinality(seps) + 1
      cut(k) == IF k = 0 THEN 0 ELSE IF k = n THEN Len(s) + 1 ELSE Kth(seps, k)
  IN  [k \in 1..n |-> SubSeq(s, cut(k - 1) + 1, cut(k) - 1)]

\* Array.prototype.join with one separator glyph.
RECURSIVE JoinWith(_, _)
JoinWith(parts, sep) ==
  IF Len(parts) = 0 THEN <<>>
  ELSE IF Len(parts) = 1 THEN parts[1]
  ELSE Let1(Tail(parts), LAMBDA t : parts[1] \o <<sep>> \o JoinWith(t, sep))

\* String.prototype.trim (blanks only).
Trim(s) ==
  LET nb == {i \in 1..Len(s) : s[i] # " "}
  IN  IF nb = {} THEN <<>>
      ELSE SubSeq(s, Kth(nb, 1), Kth(nb, Cardinality(nb)))

\* .filter(Boolean) on an array of strings: drops the empty ones.
FilterNonEmpty(parts) ==
  LET idx == {i \in 1..Len(parts) : Len(parts[i]) > 0}
  IN  [k \in 1..Cardinality(idx) |-> parts[Kth(idx, k)]]

\* ------------------------------------------------------------------ path (posix)
DotDot == <<".", ".">>
Dot == <<".">>

\* path.isAbsolute
isAbsolute(p) == Len(p) > 0 /\ p[1] = "/"

\* One round of normalizeString of node's path module: what segment s makes of
\* the segments res kept so far.  Empty and "." segments are dropped, ".."
\* removes the segment before it, or is kept when there is none to remove and
\* the path is relative.
normalizeSeg(res, s, allowAboveRoot) ==
  IF s = <<>> \/ s = Dot THEN res
  ELSE IF s = DotDot
    THEN IF Len(res) > 0 /\ Last(res) # DotDot THEN Front(res)
         ELSE IF allowAboveRoot THEN Append(res, s)
         ELSE res
  ELSE Append(res, s)

\* normalizeString, over the "/"-separated segments from left to right.
RECURSIVE normalizeSegs(_, _, _)
normalizeSegs(segs, res, allowAboveRoot) ==
  IF Len(segs) = 0 THEN res
  ELSE Let1(<<Tail(segs), normalizeSeg(res, segs[1], allowAboveRoot)>>,
            LAMBDA a : normalizeSegs(a[1], a[2], allowAboveRoot))

\* path.normalize
normalize(p) ==
  IF Len(p) = 0 THEN Dot
  ELSE Let1(JoinWith(normalizeSegs(SplitOn(p, "/"), <<>>, ~isAbsolute(p)), "/"),
            LAMBDA body :
              LET isAbs == isAbsolute(p)
                  trailingSeparator == Last(p) = "/"
              IN  IF Len(body) = 0
                    THEN IF isAbs THEN <<"/">>
                         ELSE IF trailingSeparator THEN <<".", "/">> ELSE Dot
                  ELSE IF isAbs
                    THEN <<"/">> \o body \o (IF trailingSeparator THEN <<"/">> ELSE <<>>)
                  ELSE body \o (IF trailingSeparator THEN <<"/">> ELSE <<>>))

\* path.join of two strings
join(a, b) ==
  IF Len(a) = 0 /\ Len(b) = 0 THEN Dot
  ELSE IF Len(a) = 0 THEN normalize(b)
  ELSE IF Len(b) = 0 THEN normalize(a)
  ELSE Let1(a \o <<"/">> \o b, LAMBDA joined : normalize(joined))

\* Index of the last "/" at position >= 2 that is followed by a non-"/" glyph
\* somewhere to its right (the loop of path.dirname), or 0.
dirnameEnd(p) ==
  LET cand == {i \in 2..Len(p) :
                 /\ p[i] = "/"
                 /\ \E j \in (i + 1)..Len(p) : p[j] # "/"}
  IN  IF cand = {} THEN 0 ELSE Kth(cand, Cardinality(cand))

\* A plausible slip: everything before the last separator, "" for "/a".
dirname_slice(p) ==
  LET cand == {i \in 1..Len(p) : p[i] = "/"}
  IN  IF cand = {} THEN Dot
      ELSE SubSeq(p, 1, Kth(cand, Cardinality(cand)) - 1)

\* path.dirname
dirname(p) ==
  IF Len(p) = 0 THEN Dot
  ELSE Let1(dirnameEnd(p),
            LAMBDA end :
              IF end = 0 THEN (IF p[1] = "/" THEN <<"/">> ELSE Dot)
              ELSE IF p[1] = "/" /\ end = 2 THEN <<"/", "/">>
              ELSE SubSeq(p, 1, end - 1))

\* Removes trailing separators.
stripTrailing(p) ==
  LET ns == {i \in 1..Len(p) : p[i] # "/"}
  IN  IF ns = {} THEN <<>> ELSE SubSeq(p, 1, Kth(ns, Cardinality(ns)))

\* path.basename (no extension argument): the last segment, trailing
\* separators ignored.
basename(p) ==
  Let1(stripTrailing(p),
       LAMBDA q : IF Len(q) = 0 THEN <<>>
                  ELSE Let1(SplitOn(q, "/"), LAMBDA segs : segs[Len(segs)]))

\* path.parse(p).root
parseRoot(p) == IF isAbsolute(p) THEN <<"/">> ELSE <<>>

\* ------------------------------------------------------------------ filesystem
\* The collaborator filesystem: a function from the absolute path of every
\* existing entry (no trailing separator) to the entry, a directory or a
\* regular file with its content.
DirEntry == [k |-> "dir", data |-> <<>>]
FileEntry(data) == [k |-> "file", data |-> data]

\* The entry a path names: trailing separators are not part of the name.
Key(p) == IF stripTrailing(p) = <<>> THEN <<"/">> ELSE stripTrailing(p)

Exists(f, p) == Key(p) \in DOMAIN f
IsDir(f, p) == Exists(f, p) /\ f[Key(p)].k = "dir"
IsFile(f, p) == Exists(f, p) /\ f[Key(p)].k = "file" /\ Key(p) = p

\* fsPromises.stat: the kind of the entry, or the error code.
statOf(f, p) ==
  IF ~Exists(f, p) THEN "ENOENT"
  ELSE IF f[Key(p)].k = "file" /\ Key(p) # p THEN "ENOTDIR"
  ELSE f[Key(p)].k

\* Adds or replaces one entry.
Put(f, k, e) == [q \in (DOMAIN f) \cup {k} |-> IF q = k THEN e ELSE f[q]]
\* Removes one entry.
Del(f, k) == [q \in (DOMAIN f) \ {k} |-> f[q]]

\* The entries strictly below directory k.
Below(f, k) ==
  {q \in DOMAIN f : q # k /\ StartsWith(q, IF k = <<"/">> THEN k ELSE k \o <<"/">>)}

\* A plausible slip: the flag is 'w', which truncates a file that exists.
fsOpenWx_truncates(f, p) ==
  IF Key(p) # p \/ IsDir(f, p) \/ ~IsDir(f, dirname(p))
    THEN [ok |-> FALSE, fs |-> f]
  ELSE [ok |-> TRUE, fs |-> [q \in (DOMAIN f) \cup {p} |->
                               IF q = p THEN [k |-> "file", data |-> <<>>]
                               ELSE f[q]]]

\* open(p, 'wx') then close: exclusive create of an empty regular file.
fsOpenWx(f, p) ==
  IF Exists(f, p) \/ Key(p) # p \/ ~IsDir(f, dirname(p))
    THEN [ok |-> FALSE, fs |-> f]
  ELSE [ok |-> TRUE, fs |-> Put(f, p, FileEntry(<<>>))]

\* mkdir(p, {recursive: false})
fsMkdir(f, p) ==
  IF Exists(f, p) \/ ~IsDir(f, dirname(Key(p)))
    THEN [ok |-> FALSE, fs |-> f]
  ELSE [ok |-> TRUE, fs |-> Put(f, Key(p), DirEntry)]

\* unlink(p): removes a regular file.
fsUnlink(f, p) ==
  IF ~IsFile(f, p) THEN [ok |-> FALSE, fs |-> f]
  ELSE [ok |-> TRUE, fs |-> Del(f, p)]

\* rename(2): the entry at s becomes the entry at d, with all that is below it.
fsRename(f, s, d) ==
  LET ks == Key(s)
      kd == Key(d)
      moved == {ks} \cup Below(f, ks)
      reKey(q) == kd \o SubSeq(q, Len(ks) + 1, Len(q))
      gone == moved \cup (IF Exists(f, d) THEN {kd} ELSE {})
      keep == (DOMAIN f) \ gone
  IN  IF \/ ~Exists(f, s)
         \/ ks = <<"/">>
         \/ ~IsDir(f, dirname(kd))
         \/ (f[ks].k = "file" /\ (ks # s \/ kd # d))
         \/ (Exists(f, d) /\ f[kd].k # f[ks].k)
         \/ (IsDir(f, d) /\ Below(f, kd) # {} /\ kd # ks)
         \/ (kd # ks /\ StartsWith(kd, ks \o <<"/">>))
        THEN [ok |-> FALSE, fs |-> f]
      ELSE IF kd = ks THEN [ok |-> TRUE, fs |-> f]
      ELSE [ok |-> TRUE,
            fs |-> [q \in keep \cup {reKey(m) : m \in moved} |->
                      IF q \in {reKey(m) : m \in moved}
                        THEN f[CHOOSE m \in moved : reKey(m) = q]
                      ELSE f[q]]]

\* Opening a write stream (flags 'w'): creates the file or truncates it.
fsOpenW(f, p) ==
  IF Key(p) # p \/ IsDir(f, p) \/ ~IsDir(f, dirname(p))
    THEN [ok |-> FALSE, fs |-> f]
  ELSE [ok |-> TRUE, fs |-> Put(f, p, FileEntry(<<>>))]

\* Writing through an open descriptor: the data lands in the file while the
\* path still names a regular file.
fsWrite(f, p, data) ==
  IF IsFile(f, p) THEN Put(f, p, FileEntry(data)) ELSE f

\* Opening and reading a regular file to its end.
fsRead(f, p) ==
  IF IsFile(f, p) THEN [ok |-> TRUE, data |-> f[p].data]
  ELSE [ok |-> FALSE, data |-> <<>>]

\* zlib brotli: the compressed form of a byte sequence, and its inverse, which
\* fails on anything that is not a compressed form.
BR == "BR"
brotliCompress(data) == <<BR>> \o data
brotliValid(data) == Len(data) > 0 /\ data[1] = BR
brotliDecompress(data) == Tail(data)

\* ------------------------------------------------------------------ the host
\* os.homedir()
HomeDir == <<"/", "h">>

\* The host's tree at process start.
InitialFs ==
  LET root == <<"/">>
      d == <<"/", "h", "/", "d">>
      f == <<"/", "h", "/", "f">>
      z == <<"/", "h", "/", "z">>
  IN  [q \in {root, HomeDir, d, f, z} |->
         IF q = f THEN FileEntry(<<"x">>)
         ELSE IF q = z THEN FileEntry(brotliCompress(<<"y">>))
         ELSE DirEntry]

\* ------------------------------------------------------------------ state
VARIABLES
  cwd,     \* part_000:27  the working directory
  fs,      \* the collaborator filesystem
  hd,      \* per input line: the handleLine invocation it started
  proc,    \* the process: running or exited, with its exit status and cause
  term,    \* what the session itself printed (welcome, farewell, usage)
  nlines,  \* number of 'line' events delivered so far
  faults   \* number of collaborator faults injected so far

vars == <<cwd, fs, hd, proc, term, nlines, faults>>

\* One printed line (or run of output): its kind and its text.
Out(t, p) == [t |-> t, p |-> p]
InvalidInput == Out("Invalid input", <<>>)
OperationFailed == Out("Operation failed", <<>>)
CwdLine(c) == Out("You are currently in", c)

\* A handleLine invocation: where it is suspended (pc), the command and the
\* arguments it was given, the paths it resolved, its streams, what it printed,
\* and a record of what it did: the stat results it saw (st1, st2), whether it
\* issued any filesystem call (io), whether it changed the filesystem (mut) and
\* the cwd its paths were resolved against (base), and the content its source
\* file had when its stat found it (src0).
Fresh ==
  [pc |-> "idle", cmd |-> <<>>, a1 |-> <<>>, a2 |-> <<>>, p1 |-> <<>>, p2 |-> <<>>,
   rs |-> "none", ws |-> "none", buf |-> <<>>, st1 |-> "", st2 |-> "",
   out |-> <<>>, io |-> FALSE, mut |-> FALSE, base |-> <<>>, src0 |-> <<>>]

say(r, o) == [r EXCEPT !.out = Append(@, o)]
\* part_000:35-41
invalidInput(r) == [say(r, InvalidInput) EXCEPT !.pc = "fin"]
operationFailed(r) == [say(r, OperationFailed) EXCEPT !.pc = "fin"]

\* ------------------------------------------------------------------ startup
\* index.js:11-19: the value of the first argument starting "--username=",
\* up to its next "=".
providedUsername(argv) ==
  LET hits == {i \in 1..Len(argv) : StartsWith(argv[i], <<"--username", "=">>)}
  IN  IF hits = {} THEN <<>>
      ELSE SplitOn(argv[Kth(hits, 1)], "=")[2]

\* Command lines the process is started with.
Argvs ==
  { <<>>,
    << <<"--username", "=">> >>,
    << <<"--verbose">>, <<"--username", "=", "u">> >> }

\* More command lines: a name that holds "=", an empty name before a proper
\* one, and the argument given twice.
StartArgvs ==
  Argvs \cup
  { << <<"--username", "=", "u">> >>,
    << <<"--username", "=", "u", "=", "v">> >>,
    << <<"--username", "=", "=", "u">> >>,
    << <<"--username", "=">>, <<"--username", "=", "u">> >>,
    << <<"--username", "=", "u">>, <<"--username", "=", "w">> >>,
    << <<"--user", "=", "u">> >> }

Running == [st |-> "running", code |-> 0, by |-> "", user |-> <<>>, argv |-> <<>>]

\* index.js:11-23 and 57-61: the process started with one of the command
\* lines argvs, after its synchronous start-up code ran.
Startup(argvs) ==
  /\ fs = InitialFs
  /\ hd = [h \in H |-> Fresh]
  /\ nlines = 0
  /\ faults = 0
  /\ cwd = HomeDir
  /\ \E argv \in argvs :
       LET u == providedUsername(argv)
       IN  IF Len(u) = 0
             THEN /\ proc = [Running EXCEPT !.st = "exited", !.code = 1,
                                            !.by = "username", !.argv = argv]
                  /\ term = <<Out("usage", <<>>)>>
           ELSE /\ proc = [Running EXCEPT !.user = u, !.argv = argv]
                /\ term = <<Out("Welcome", u), CwdLine(HomeDir)>>

Init == Startup(Argvs)

\* ------------------------------------------------------------------ path confinement
\* A plausible slip: the target is joined to cwd even when it is absolute.
safeResolve_alwaysJoin(target, c) ==
  Let1(normalize(join(c, target)),
       LAMBDA resolved :
         LET rootOfCwd == parseRoot(c)
         IN  IF ~StartsWith(resolved, rootOfCwd) THEN rootOfCwd ELSE resolved)

\* part_000:44-50
safeResolve(target, c) ==
  Let1(IF isAbsolute(target) THEN normalize(target)
       ELSE normalize(join(c, target)),
       LAMBDA resolved :
         LET rootOfCwd == parseRoot(c)
         IN  IF ~StartsWith(resolved, rootOfCwd) THEN rootOfCwd ELSE resolved)

\* ------------------------------------------------------------------ handlers, up to their first await
\* A plausible slip: the parent is cut off at the last separator, root check
\* and all.
goUp_slice(c) == dirname_slice(c)

\* part_000:65-73: the new cwd
goUp(c) ==
  LET parent == dirname(c)
      rootOfCwd == parseRoot(c)
  IN  IF c = rootOfCwd THEN c ELSE parent

\* part_000:75-79
changeDir(arg, c) ==
  IF Len(arg) = 0 THEN invalidInput(Fresh)
  ELSE [Fresh EXCEPT !.pc = "cd_stat", !.p1 = safeResolve(arg, c),
                     !.io = TRUE, !.base = c]

\* part_000:52-54
listDir(c) == [Fresh EXCEPT !.pc = "ls_readdir", !.p1 = c, !.io = TRUE, !.base = c]

\* part_000:90-94
catFile(arg, c) ==
  IF Len(arg) = 0 THEN invalidInput(Fresh)
  ELSE [Fresh EXCEPT !.pc = "cat_stat", !.p1 = safeResolve(arg, c),
                     !.io = TRUE, !.base = c]

\* part_000:106-110
addFile(arg, c) ==
  IF Len(arg) = 0 THEN invalidInput(Fresh)
  ELSE [Fresh EXCEPT !.pc = "add_open", !.p1 = join(c, arg),
                     !.io = TRUE, !.base = c]

\* part_000:119-123
makeDir(arg, c) ==
  IF Len(arg) = 0 THEN invalidInput(Fresh)
  ELSE [Fresh EXCEPT !.pc = "mkdir", !.p1 = join(c, arg),
                     !.io = TRUE, !.base = c]

\* A plausible slip: only the first argument is checked.
renameFile_oneCheck(oldP, newName, c) ==
  IF Len(oldP) = 0 THEN invalidInput(Fresh)
  ELSE [Fresh EXCEPT !.pc = "rn_rename", !.p1 = safeResolve(oldP, c),
                     !.p2 = join(dirname(safeResolve(oldP, c)), newName),
                     !.io = TRUE, !.base = c]

\* part_000:129-134
renameFile(oldP, newName, c) ==
  IF Len(oldP) = 0 \/ Len(newName) = 0 THEN invalidInput(Fresh)
  ELSE Let1(safeResolve(oldP, c),
            LAMBDA src :
              [Fresh EXCEPT !.pc = "rn_rename", !.p1 = src,
                            !.p2 = join(dirname(src), newName),
                            !.io = TRUE, !.base = c])

\* part_000:140-145, 163-168, 259-264, 283-288: the common opening of the
\* two-argument stream commands, which then await the stat of the source.
twoPaths(srcArg, destArg, c, pc) ==
  IF Len(srcArg) = 0 \/ Len(destArg) = 0 THEN invalidInput(Fresh)
  ELSE [Fresh EXCEPT !.pc = pc, !.p1 = safeResolve(srcArg, c),
                     !.p2 = safeResolve(destArg, c), !.io = TRUE, !.base = c]

copyFile(srcArg, destDirArg, c) == twoPaths(srcArg, destDirArg, c, "cp_stat1")
moveFile(srcArg, destDirArg, c) == twoPaths(srcArg, destDirArg, c, "mv_stat1")
compressFile(srcArg, destArg, c) == twoPaths(srcArg, destArg, c, "cmp_stat1")
decompressFile(srcArg, destArg, c) == twoPaths(srcArg, destArg, c, "dec_stat1")

\* part_000:194-198
removeFile(arg, c) ==
  IF Len(arg) = 0 THEN invalidInput(Fresh)
  ELSE [Fresh EXCEPT !.pc = "rm_stat", !.p1 = safeResolve(arg, c),
                     !.io = TRUE, !.base = c]

\* part_000:240-244
hashFile(arg, c) ==
  IF Len(arg) = 0 THEN invalidInput(Fresh)
  ELSE [Fresh EXCEPT !.pc = "hash_stat", !.p1 = safeResolve(arg, c),
                     !.io = TRUE, !.base = c]

\* The flags os recognizes (part_000:209-229).
OsFlags == { <<"--EOL">>, <<"--cpus">>, <<"--homedir">>, <<"--username">>,
             <<"--architecture">> }

\* part_000:206-238: synchronous; `throws` is the host query raising.
osInfo(option, throws) ==
  IF option \in OsFlags
    THEN IF throws THEN operationFailed(Fresh)
         ELSE [say(Fresh, Out("os", option)) EXCEPT !.pc = "fin"]
  ELSE invalidInput(Fresh)

\* ------------------------------------------------------------------ the dispatcher
\* parts[i] of the source (0-based), "" when absent.
Part(parts, i) == IF Len(parts) >= i + 1 THEN parts[i + 1] ELSE <<>>
\* parts.slice(i).join(' ')
Rest(parts, i) == JoinWith(SubSeq(parts, i + 1, Len(parts)), " ")

\* Commands whose case of the switch holds no await (part_000:351-353, 363-364).
IsSyncCmd(cmd) ==
  cmd \notin { <<"up">>, <<"cd">>, <<"ls">>, <<"cat">>, <<"add">>, <<"mkdir">>,
               <<"rn">>, <<"cp">>, <<"mv">>, <<"rm">>, <<"hash">>,
               <<"compress">>, <<"decompress">> }

\* A plausible slip: the case of ls calls goUp as the case of up does.
cwdAfter_lsGoesUp(cmd, c) ==
  IF cmd = <<"up">> \/ cmd = <<"ls">> THEN goUp(c) ELSE c

\* part_000:320-365: the cwd the synchronous part of the chosen case leaves;
\* goUp, which holds no await, is the only one that assigns it.
cwdAfter(cmd, c) == IF cmd = <<"up">> THEN goUp(c) ELSE c

\* A plausible slip: the switch has no default case.
dispatch_noDefault(parts, c, throws) ==
  LET cmd == parts[1]
      r == CASE cmd = <<"up">> -> [Fresh EXCEPT !.pc = "fin", !.base = c]
             [] cmd = <<"cd">> -> changeDir(Rest(parts, 1), c)
             [] cmd = <<"ls">> -> listDir(c)
             [] cmd = <<"cat">> -> catFile(Rest(parts, 1), c)
             [] cmd = <<"add">> -> addFile(Rest(parts, 1), c)
             [] cmd = <<"mkdir">> -> makeDir(Rest(parts, 1), c)
             [] cmd = <<"rn">> -> renameFile(Part(parts, 1), Rest(parts, 2), c)
             [] cmd = <<"cp">> -> copyFile(Part(parts, 1), Rest(parts, 2), c)
             [] cmd = <<"mv">> -> moveFile(Part(parts, 1), Rest(parts, 2), c)
             [] cmd = <<"rm">> -> removeFile(Rest(parts, 1), c)
             [] cmd = <<"os">> -> osInfo(Part(parts, 1), throws)
             [] cmd = <<"hash">> -> hashFile(Rest(parts, 1), c)
             [] cmd = <<"compress">> ->
                  compressFile(Part(parts, 1), Rest(parts, 2), c)
             [] cmd = <<"decompress">> ->
                  decompressFile(Part(parts, 1), Rest(parts, 2), c)
             [] OTHER -> [Fresh EXCEPT !.pc = "fin"]
      two == cmd \in { <<"rn">>, <<"cp">>, <<"mv">>, <<"compress">>,
                       <<"decompress">> }
      c2 == cwdAfter(cmd, c)
      r2 == [r EXCEPT !.cmd = cmd,
                      !.a1 = IF two \/ cmd = <<"os">> THEN Part(parts, 1)
                             ELSE Rest(parts, 1),
                      !.a2 = IF two THEN Rest(parts, 2) ELSE <<>>]
  IN  [r |-> IF IsSyncCmd(cmd)
               THEN [say(r2, CwdLine(c2)) EXCEPT !.pc = "done"]
             ELSE r2,
       cwd |-> c2]

\* part_000:317-365: the switch, run up to the first await of the chosen case.
\* Yields the invocation's record and the cwd it leaves.
dispatch(parts, c, throws) ==
  LET cmd == parts[1]
      r == CASE cmd = <<"up">> -> [Fresh EXCEPT !.pc = "fin", !.base = c]
             [] cmd = <<"cd">> -> changeDir(Rest(parts, 1), c)
             [] cmd = <<"ls">> -> listDir(c)
             [] cmd = <<"cat">> -> catFile(Rest(parts, 1), c)
             [] cmd = <<"add">> -> addFile(Rest(parts, 1), c)
             [] cmd = <<"mkdir">> -> makeDir(Rest(parts, 1), c)
             [] cmd = <<"rn">> -> renameFile(Part(parts, 1), Rest(parts, 2), c)
             [] cmd = <<"cp">> -> copyFile(Part(parts, 1), Rest(parts, 2), c)
             [] cmd = <<"mv">> -> moveFile(Part(parts, 1), Rest(parts, 2), c)
             [] cmd = <<"rm">> -> removeFile(Rest(parts, 1), c)
             [] cmd = <<"os">> -> osInfo(Part(parts, 1), throws)
             [] cmd = <<"hash">> -> hashFile(Rest(parts, 1), c)
             [] cmd = <<"compress">> ->
                  compressFile(Part(parts, 1), Rest(parts, 2), c)
             [] cmd = <<"decompress">> ->
                  decompressFile(Part(parts, 1), Rest(parts, 2), c)
             [] OTHER -> invalidInput(Fresh)
      two == cmd \in { <<"rn">>, <<"cp">>, <<"mv">>, <<"compress">>,
                       <<"decompress">> }
      c2 == cwdAfter(cmd, c)
      r2 == [r EXCEPT !.cmd = cmd,
                      !.a1 = IF two \/ cmd = <<"os">> THEN Part(parts, 1)
                             ELSE Rest(parts, 1),
                      !.a2 = IF two THEN Rest(parts, 2) ELSE <<>>]
  IN  [r |-> IF IsSyncCmd(cmd)
               THEN [say(r2, CwdLine(c2)) EXCEPT !.pc = "done"]
             ELSE r2,
       cwd |-> c2]

\* A plausible slip: the farewell is printed but the process is not ended.
exitAndCleanup_noExit(by, printed) ==
  /\ term' = Append(printed, Out("Thank you", proc.user))
  /\ proc' = [proc EXCEPT !.by = by]

\* part_000:375-379
exitAndCleanup(by, printed) ==
  /\ term' = Append(printed, Out("Thank you", proc.user))
  /\ proc' = [proc EXCEPT !.st = "exited", !.code = 0, !.by = by]

\* The lines a user types.
Ln(words) == JoinWith(words, " ")
NavLines ==
  { Ln(<< <<"up">> >>), Ln(<< <<"cd">> >>),
    Ln(<< <<"cd">>, <<"d">> >>), Ln(<< <<"cd">>, <<"d", "/">> >>),
    Ln(<< <<"cd">>, DotDot >>), Ln(<< <<"cd">>, <<"f">> >>),
    Ln(<< <<"cd">>, <<"n">> >>), Ln(<< <<"cd">>, <<"/">> >>),
    Ln(<< <<"cd">>, <<".", ".", "/", ".", ".", "/", ".", ".">> >>),
    Ln(<< <<"cd">>, <<"/", "h", "/", ".", "/", "d">> >>) }
FileLines ==
  { Ln(<< <<"ls">> >>),
    Ln(<< <<"cat">> >>), Ln(<< <<"cat">>, <<"f">> >>),
    Ln(<< <<"cat">>, <<"d">> >>), Ln(<< <<"cat">>, <<"n">> >>),
    Ln(<< <<"add">> >>), Ln(<< <<"add">>, <<"g">> >>),
    Ln(<< <<"add">>, <<"f">> >>),
    Ln(<< <<"mkdir">> >>), Ln(<< <<"mkdir">>, <<"e">> >>),
    Ln(<< <<"mkdir">>, <<"d">> >>),
    Ln(<< <<"rn">> >>), Ln(<< <<"rn">>, <<"f">> >>),
    Ln(<< <<"rn">>, <<"f">>, <<"g">> >>), Ln(<< <<"rn">>, <<"n">>, <<"g">> >>),
    Ln(<< <<"rn">>, <<"d">>, <<"e">> >>),
    Ln(<< <<"rn">>, <<"f">>, <<"d", "/", "g">> >>),
    Ln(<< <<"rn">>, <<"f">>, <<".", ".", "/", "g">> >>),
    Ln(<< <<"rm">> >>), Ln(<< <<"rm">>, <<"f">> >>),
    Ln(<< <<"rm">>, <<"d">> >>), Ln(<< <<"rm">>, <<"n">> >>),
    Ln(<< <<"hash">> >>), Ln(<< <<"hash">>, <<"f">> >>),
    Ln(<< <<"hash">>, <<"d">> >>), Ln(<< <<"hash">>, <<"n">> >>) }
StreamLines ==
  { Ln(<< <<"cp">> >>), Ln(<< <<"cp">>, <<"f">> >>),
    Ln(<< <<"cp">>, <<"f">>, <<"d">> >>), Ln(<< <<"cp">>, <<"f">>, <<"n">> >>),
    Ln(<< <<"cp">>, <<"d">>, <<"d">> >>), Ln(<< <<"cp">>, <<"n">>, <<"n">> >>),
    Ln(<< <<"cp">>, <<"f">>, <<".">> >>),
    Ln(<< <<"mv">> >>), Ln(<< <<"mv">>, <<"f">> >>),
    Ln(<< <<"mv">>, <<"f">>, <<"d">> >>), Ln(<< <<"mv">>, <<"f">>, <<"n">> >>),
    Ln(<< <<"mv">>, <<"d">>, <<"d">> >>), Ln(<< <<"mv">>, <<"n">>, <<"n">> >>),
    Ln(<< <<"mv">>, <<"f">>, <<".">> >>),
    Ln(<< <<"compress">> >>), Ln(<< <<"compress">>, <<"f">> >>),
    Ln(<< <<"compress">>, <<"f">>, <<"g">> >>),
    Ln(<< <<"compress">>, <<"d">>, <<"g">> >>),
    Ln(<< <<"compress">>, <<"f">>, <<"n", "/", "g">> >>),
    Ln(<< <<"decompress">> >>), Ln(<< <<"decompress">>, <<"z">> >>),
    Ln(<< <<"decompress">>, <<"z">>, <<"g">> >>),
    Ln(<< <<"decompress">>, <<"f">>, <<"g">> >>),
    Ln(<< <<"decompress">>, <<"d">>, <<"g">> >>),
    Ln(<< <<"decompress">>, <<"z">>, <<"n", "/", "g">> >>) }
OtherLines ==
  { <<>>, <<" ", " ">>,
    <<"exit">>, <<" ", ".", "exit", " ">>, Ln(<< <<"exit">>, <<"now">> >>),
    Ln(<< <<"os">> >>), Ln(<< <<"os">>, <<"--EOL">> >>),
    Ln(<< <<"os">>, <<"--username">> >>), Ln(<< <<"os">>, <<"--bad">> >>),
    Ln(<< <<"foo">>, <<"f">> >>), <<" ", "cd", " ", " ", "d", " ">> }
Lines == NavLines \cup FileLines \cup StreamLines \cup OtherLines

\* part_000:310-316 and 392-393: a 'line' event; handleLine runs until it
\* returns, exits the process, or reaches its first await.
handleLine(h, line) ==
  /\ proc.st = "running"
  /\ h = nlines + 1
  /\ nlines' = nlines + 1
  /\ \E trimmed \in {Trim(line)} :
     \E parts \in {FilterNonEmpty(SplitOn(trimmed, " "))} :
       IF Len(trimmed) = 0
         THEN /\ hd' = [hd EXCEPT ![h] = [Fresh EXCEPT !.pc = "ret"]]
              /\ UNCHANGED <<cwd, fs, proc, term, faults>>
       ELSE IF trimmed = <<".", "exit">> \/ trimmed = <<"exit">>
         THEN /\ exitAndCleanup("keyword", term)
              /\ UNCHANGED <<cwd, fs, hd, faults>>
       ELSE \E throws \in {FALSE} \cup
                          {t \in {TRUE} : /\ faults < MaxFaults
                                          /\ parts[1] = <<"os">>
                                          /\ Part(parts, 1) \in OsFlags} :
              \E d \in {dispatch(parts, cwd, throws)} :
                /\ hd' = [hd EXCEPT ![h] = d.r]
                /\ cwd' = d.cwd
                /\ faults' = IF throws THEN faults + 1 ELSE faults
                /\ UNCHANGED <<fs, proc, term>>

\* part_000:368-370: the finally block, after the awaited handler returned.
printCwd(h) ==
  /\ proc.st = "running"
  /\ hd[h].pc = "fin"
  /\ hd' = [hd EXCEPT ![h] = [say(@, CwdLine(cwd)) EXCEPT !.pc = "done"]]
  /\ UNCHANGED <<cwd, fs, proc, term, nlines, faults>>

\* part_000:394: handleLine's promise resolved; the prompt is shown again.
prompt(h) ==
  /\ proc.st = "running"
  /\ hd[h].pc \in {"done", "ret"}
  /\ hd' = [hd EXCEPT ![h] = [Fresh EXCEPT !.pc = "end"]]
  /\ UNCHANGED <<cwd, fs, proc, term, nlines, faults>>

\* A plausible slip: no handler is registered, and the signal's default action
\* ends the process without a farewell.
sigint_default ==
  /\ proc.st = "running"
  /\ proc' = [proc EXCEPT !.st = "exited", !.code = 130, !.by = "sigint"]
  /\ UNCHANGED <<cwd, fs, hd, term, nlines, faults>>

\* part_000:382-385
sigint ==
  /\ proc.st = "running"
  /\ exitAndCleanup("sigint", Append(term, Out("", <<>>)))
  /\ UNCHANGED <<cwd, fs, hd, nlines, faults>>

\* ------------------------------------------------------------------ collaborator outcomes
\* What an awaited stat can report: the entry's kind or its error, or, while
\* faults remain, an unexpected error.
StatResults(p) ==
  {statOf(fs, p)} \cup (IF faults < MaxFaults THEN {"EACCES"} ELSE {})
IsFault(res) == res = "EACCES"
charge(isFault) == IF isFault THEN faults + 1 ELSE faults

\* What a mutating call can do: what the filesystem says, or, while faults
\* remain and the call would have succeeded, an unexpected error.
Outcomes(real) ==
  {[ok |-> real.ok, fs |-> real.fs, fault |-> FALSE]} \cup
  (IF real.ok /\ faults < MaxFaults
     THEN {[ok |-> FALSE, fs |-> fs, fault |-> TRUE]} ELSE {})

\* What a read to the end of a file can do.
ReadOutcomes(p) ==
  LET real == fsRead(fs, p)
  IN  {[ok |-> real.ok, data |-> real.data, fault |-> FALSE]} \cup
      (IF real.ok /\ faults < MaxFaults
         THEN {[ok |-> FALSE, data |-> <<>>, fault |-> TRUE]} ELSE {})

\* The step of invocation h that takes its record from r to r2.
Step(h, r2) == hd' = [hd EXCEPT ![h] = r2]
At(h, pc) == proc.st = "running" /\ hd[h].pc = pc

\* ------------------------------------------------------------------ up, cd, ls
\* A plausible slip: cwd is assigned whatever the stat reports.
changeDirTarget_noKindCheck(r, res, c) == r.p1

\* part_000:80-84: the cwd that changeDir leaves once its stat reported res.
changeDirTarget(r, res, c) ==
  IF res = "dir" /\ StartsWith(r.p1, parseRoot(c)) THEN r.p1 ELSE c

\* part_000:79-87: changeDir after its awaited stat.
changeDirStat(h) ==
  /\ At(h, "cd_stat")
  /\ \E res \in StatResults(hd[h].p1) :
       LET r == [hd[h] EXCEPT !.st1 = res]
       IN  /\ cwd' = changeDirTarget(r, res, cwd)
           /\ Step(h, IF res = "dir" THEN [r EXCEPT !.pc = "fin"]
                      ELSE IF res = "file" THEN invalidInput(r)
                      ELSE operationFailed(r))
           /\ faults' = charge(IsFault(res))
  /\ UNCHANGED <<fs, proc, term, nlines>>

\* part_000:54-62: listDir after its awaited readdir.
listDirRead(h) ==
  /\ At(h, "ls_readdir")
  /\ \E fault \in {FALSE} \cup {t \in {TRUE} : faults < MaxFaults} :
       /\ Step(h, IF IsDir(fs, hd[h].p1) /\ ~fault
                    THEN [say(hd[h], Out("listing", hd[h].p1)) EXCEPT !.pc = "fin"]
                  ELSE operationFailed(hd[h]))
       /\ faults' = charge(fault)
  /\ UNCHANGED <<cwd, fs, proc, term, nlines>>

\* ------------------------------------------------------------------ cat
\* part_000:94-98: catFile after its awaited stat.
catFileStat(h) ==
  /\ At(h, "cat_stat")
  /\ \E res \in StatResults(hd[h].p1) :
       LET r == [hd[h] EXCEPT !.st1 = res]
       IN  /\ Step(h, IF res = "file" THEN [r EXCEPT !.pc = "cat_read", !.rs = "pending"]
                      ELSE IF res = "dir" THEN invalidInput(r)
                      ELSE operationFailed(r))
           /\ faults' = charge(IsFault(res))
  /\ UNCHANGED <<cwd, fs, proc, term, nlines>>

\* part_000:96-100: the read stream of cat ends (its content and a newline are
\* printed), or it raises 'error': "Operation failed" is printed, the stream is
\* destroyed, and the awaited 'end' never comes.
catFileRead(h) ==
  /\ At(h, "cat_read")
  /\ \E o \in ReadOutcomes(hd[h].p1) :
       /\ Step(h, IF o.ok
                    THEN [hd[h] EXCEPT !.out = @ \o <<Out("content", o.data), Out("", <<>>)>>,
                                       !.rs = "none", !.pc = "fin"]
                  ELSE [say(hd[h], OperationFailed) EXCEPT !.rs = "destroyed",
                                                           !.pc = "cat_await_end"])
       /\ faults' = charge(o.fault)
  /\ UNCHANGED <<cwd, fs, proc, term, nlines>>

\* ------------------------------------------------------------------ add, mkdir, rn, rm
\* One awaited mutating call whose failure is reported as "Operation failed".
mutate(h, real) ==
  \E o \in Outcomes(real) :
    /\ fs' = o.fs
    /\ Step(h, IF o.ok THEN [hd[h] EXCEPT !.pc = "fin", !.mut = TRUE]
               ELSE operationFailed(hd[h]))
    /\ faults' = charge(o.fault)

\* part_000:110-116
addFileOpen(h) ==
  /\ At(h, "add_open")
  /\ mutate(h, fsOpenWx(fs, hd[h].p1))
  /\ UNCHANGED <<cwd, proc, term, nlines>>

\* part_000:123-126
makeDirMkdir(h) ==
  /\ At(h, "mkdir")
  /\ mutate(h, fsMkdir(fs, hd[h].p1))
  /\ UNCHANGED <<cwd, proc, term, nlines>>

\* part_000:134-137
renameFileRename(h) ==
  /\ At(h, "rn_rename")
  /\ mutate(h, fsRename(fs, hd[h].p1, hd[h].p2))
  /\ UNCHANGED <<cwd, proc, term, nlines>>

\* Variant of fileStat: a missing path is reported like a path of the wrong kind.
fileStat_missingInvalid(h, next) ==
  \E res \in StatResults(hd[h].p1) :
    LET r == [hd[h] EXCEPT !.st1 = res]
    IN  /\ Step(h, IF res = "file"
                     THEN [r EXCEPT !.pc = next, !.src0 = fs[hd[h].p1].data]
                   ELSE invalidInput(r))
        /\ faults' = charge(IsFault(res))

\* part_000:198-199, 244-245, 94-95: the stat of a path that must be a file.
fileStat(h, next) ==
  \E res \in StatResults(hd[h].p1) :
    LET r == [hd[h] EXCEPT !.st1 = res]
    IN  /\ Step(h, IF res = "file"
                     THEN [r EXCEPT !.pc = next, !.src0 = fs[hd[h].p1].data]
                   ELSE IF res = "dir" THEN invalidInput(r)
                   ELSE operationFailed(r))
        /\ faults' = charge(IsFault(res))

\* part_000:198-199
removeFileStat(h) ==
  /\ At(h, "rm_stat")
  /\ fileStat(h, "rm_unlink")
  /\ UNCHANGED <<cwd, fs, proc, term, nlines>>

\* part_000:200-203
removeFileUnlink(h) ==
  /\ At(h, "rm_unlink")
  /\ mutate(h, fsUnlink(fs, hd[h].p1))
  /\ UNCHANGED <<cwd, proc, term, nlines>>

\* ------------------------------------------------------------------ hash
\* part_000:244-245
hashFileStat(h) ==
  /\ At(h, "hash_stat")
  /\ fileStat(h, "hash_read")
  /\ UNCHANGED <<cwd, fs, proc, term, nlines>>

\* part_000:246-256: the read stream ends and the digest is printed, or it
\* raises 'error' and the promise is rejected.
hashFileRead(h) ==
  /\ At(h, "hash_read")
  /\ \E o \in ReadOutcomes(hd[h].p1) :
       /\ Step(h, IF o.ok THEN [say(hd[h], Out("sha256", o.data)) EXCEPT !.pc = "fin"]
                  ELSE operationFailed(hd[h]))
       /\ faults' = charge(o.fault)
  /\ UNCHANGED <<cwd, fs, proc, term, nlines>>

\* ------------------------------------------------------------------ cp, mv, compress, decompress
\* part_000:145-146, 168-169, 264-265, 288-289: the stat of the source.
copyFileStat(h) ==
  /\ At(h, "cp_stat1")
  /\ fileStat(h, "cp_stat2")
  /\ UNCHANGED <<cwd, fs, proc, term, nlines>>

moveFileStat(h) ==
  /\ At(h, "mv_stat1")
  /\ fileStat(h, "mv_stat2")
  /\ UNCHANGED <<cwd, fs, proc, term, nlines>>

compressFileStat(h) ==
  /\ At(h, "cmp_stat1")
  /\ fileStat(h, "cmp_stat2")
  /\ UNCHANGED <<cwd, fs, proc, term, nlines>>

decompressFileStat(h) ==
  /\ At(h, "dec_stat1")
  /\ fileStat(h, "dec_stat2")
  /\ UNCHANGED <<cwd, fs, proc, term, nlines>>

\* Variant of destStat: the stat of the destination is not caught separately.
destStat_throws(h, dir, dest, next) ==
  \E res \in StatResults(dir) :
    LET r == [hd[h] EXCEPT !.st2 = res]
    IN  /\ Step(h, IF res = "dir" THEN [r EXCEPT !.p2 = dest, !.pc = next,
                                                 !.rs = IF next = "stream" THEN "pending" ELSE "none",
                                                 !.ws = IF next = "stream" THEN "pending" ELSE "none"]
                   ELSE operationFailed(r))
        /\ faults' = charge(IsFault(res))

\* part_000:147-148 (and 170-171, 267-268, 291-292): stat(dir).catch(() => null)
\* of the directory that will hold the destination; then the handler holds the
\* destination path dest and goes on at next.
destStat(h, dir, dest, next) ==
  \E res \in StatResults(dir) :
    LET r == [hd[h] EXCEPT !.st2 = res]
    IN  /\ Step(h, IF res = "dir" THEN [r EXCEPT !.p2 = dest, !.pc = next,
                                                 !.rs = IF next = "stream" THEN "pending" ELSE "none",
                                                 !.ws = IF next = "stream" THEN "pending" ELSE "none"]
                   ELSE invalidInput(r))
        /\ faults' = charge(IsFault(res))

\* part_000:147-156
copyFileDestStat(h) ==
  /\ At(h, "cp_stat2")
  /\ destStat(h, hd[h].p2, join(hd[h].p2, basename(hd[h].p1)), "stream")
  /\ UNCHANGED <<cwd, fs, proc, term, nlines>>

\* part_000:170-175
moveFileDestStat(h) ==
  /\ At(h, "mv_stat2")
  /\ destStat(h, hd[h].p2, join(hd[h].p2, basename(hd[h].p1)), "mv_rename")
  /\ UNCHANGED <<cwd, fs, proc, term, nlines>>

\* part_000:266-276
compressFileDestStat(h) ==
  /\ At(h, "cmp_stat2")
  /\ destStat(h, dirname(hd[h].p2), hd[h].p2, "stream")
  /\ UNCHANGED <<cwd, fs, proc, term, nlines>>

\* part_000:290-300
decompressFileDestStat(h) ==
  /\ At(h, "dec_stat2")
  /\ destStat(h, dirname(hd[h].p2), hd[h].p2, "stream")
  /\ UNCHANGED <<cwd, fs, proc, term, nlines>>

\* part_000:174-187: the rename of mv; on any error the copy streams are made.
moveFileRename(h) ==
  /\ At(h, "mv_rename")
  /\ \E o \in Outcomes(fsRename(fs, hd[h].p1, hd[h].p2)) :
       /\ fs' = o.fs
       /\ Step(h, IF o.ok THEN [hd[h] EXCEPT !.pc = "fin", !.mut = TRUE]
                  ELSE [hd[h] EXCEPT !.pc = "stream", !.rs = "pending",
                                     !.ws = "pending"])
       /\ faults' = charge(o.fault)
  /\ UNCHANGED <<cwd, proc, term, nlines>>

\* A plausible slip: the catch block reports the failure as invalid input.
rejected_asInvalid(r) ==
  invalidInput([r EXCEPT !.rs = "none", !.ws = "none", !.buf = <<>>])

\* The streams of a rejected pipeline promise: destroyed, and the handler's
\* catch prints "Operation failed".
rejected(r) ==
  operationFailed([r EXCEPT !.rs = "none", !.ws = "none", !.buf = <<>>])

\* part_000:152, 182, 272, 296: the write stream opens its file (created or
\* truncated), or raises 'error', which rejects the promise.
writeStreamOpen(h) ==
  /\ At(h, "stream")
  /\ hd[h].ws = "pending"
  /\ \E o \in Outcomes(fsOpenW(fs, hd[h].p2)) :
       /\ fs' = o.fs
       /\ Step(h, IF o.ok THEN [hd[h] EXCEPT !.ws = "open", !.mut = TRUE]
                  ELSE rejected(hd[h]))
       /\ faults' = charge(o.fault)
  /\ UNCHANGED <<cwd, proc, term, nlines>>

\* What the pipeline makes of the source's bytes before they reach the write
\* stream (part_000:156, 276, 300).
transform(cmd, data) ==
  IF cmd = <<"compress">> THEN brotliCompress(data)
  ELSE IF cmd = <<"decompress">> THEN brotliDecompress(data)
  ELSE data

\* part_000:151-153 (and 181-183, 270-273, 294-297): the read stream delivers
\* the source's bytes to the next stage, or raises 'error', which rejects the
\* promise.  The decompress stage raises 'error' on bytes that are no
\* compressed form; no listener is attached to it (part_000:295-300), so the
\* error is an uncaught exception and the process dies.
readStreamRead(h) ==
  /\ At(h, "stream")
  /\ hd[h].rs = "pending"
  /\ \E o \in ReadOutcomes(hd[h].p1) :
       /\ faults' = charge(o.fault)
       /\ IF o.ok /\ hd[h].cmd = <<"decompress">> /\ ~brotliValid(o.data)
            THEN /\ proc' = [proc EXCEPT !.st = "exited", !.code = 1,
                                         !.by = "uncaught"]
                 /\ Step(h, [hd[h] EXCEPT !.rs = "read"])
          ELSE /\ Step(h, IF o.ok
                            THEN [hd[h] EXCEPT !.rs = "read",
                                               !.buf = transform(hd[h].cmd, o.data)]
                          ELSE rejected(hd[h]))
               /\ UNCHANGED proc
  /\ UNCHANGED <<cwd, fs, term, nlines>>

\* part_000:155, 185, 275, 299: the bytes are written and the write stream
\* emits 'finish', or it raises 'error' first.
writeStreamFinish(h) ==
  /\ At(h, "stream")
  /\ hd[h].rs = "read"
  /\ hd[h].ws = "open"
  /\ \E fault \in {FALSE} \cup {t \in {TRUE} : faults < MaxFaults} :
       /\ fs' = IF fault THEN fs ELSE fsWrite(fs, hd[h].p2, hd[h].buf)
       /\ Step(h, IF fault THEN rejected(hd[h])
                  ELSE [hd[h] EXCEPT !.rs = "none", !.ws = "none", !.buf = <<>>,
                                     !.pc = IF hd[h].cmd = <<"mv">> THEN "mv_unlink"
                                            ELSE "fin"])
       /\ faults' = charge(fault)
  /\ UNCHANGED <<cwd, proc, term, nlines>>

\* part_000:188-191
moveFileUnlink(h) ==
  /\ At(h, "mv_unlink")
  /\ mutate(h, fsUnlink(fs, hd[h].p1))
  /\ UNCHANGED <<cwd, proc, term, nlines>>

\* ------------------------------------------------------------------ the program
Next ==
  \/ \E h \in H, line \in Lines : handleLine(h, line)
  \/ \E h \in H : printCwd(h)
  \/ \E h \in H : prompt(h)
  \/ sigint
  \/ \E h \in H : changeDirStat(h)
  \/ \E h \in H : listDirRead(h)
  \/ \E h \in H : catFileStat(h)
  \/ \E h \in H : catFileRead(h)
  \/ \E h \in H : addFileOpen(h)
  \/ \E h \in H : makeDirMkdir(h)
  \/ \E h \in H : renameFileRename(h)
  \/ \E h \in H : removeFileStat(h)
  \/ \E h \in H : removeFileUnlink(h)
  \/ \E h \in H : hashFileStat(h)
  \/ \E h \in H : hashFileRead(h)
  \/ \E h \in H : copyFileStat(h)
  \/ \E h \in H : copyFileDestStat(h)
  \/ \E h \in H : moveFileStat(h)
  \/ \E h \in H : moveFileDestStat(h)
  \/ \E h \in H : moveFileRename(h)
  \/ \E h \in H : moveFileUnlink(h)
  \/ \E h \in H : compressFileStat(h)
  \/ \E h \in H : compressFileDestStat(h)
  \/ \E h \in H : decompressFileStat(h)
  \/ \E h \in H : decompressFileDestStat(h)
  \/ \E h \in H : writeStreamOpen(h)
  \/ \E h \in H : readStreamRead(h)
  \/ \E h \in H : writeStreamFinish(h)

Spec == Init /\ [][Next]_vars

\* A session of the reading commands alone.
ReadLines ==
  { l \in Lines : Len(l) > 0 /\ l[1] \in {"ls", "cat", "hash"} }

readStep(h) ==
  \/ listDirRead(h)
  \/ catFileStat(h)
  \/ catFileRead(h)
  \/ hashFileStat(h)
  \/ hashFileRead(h)
  \/ printCwd(h)
  \/ prompt(h)

ReadNext ==
  \/ \E h \in H, line \in ReadLines : handleLine(h, line)
  \/ \E h \in H : readStep(h)

\* The event loop runs every callback that is due: each step of a started
\* handler is eventually taken.  Input lines are up to the user.
ReadFairSpec ==
  Init /\ [][ReadNext]_vars /\ \A h \in H : WF_vars(readStep(h))

\* Path resolution on its own: a session whose cwd is any directory path the
\* program can hold, and whose one line has safeResolve applied to any path
\* argument of up to MaxPathLen glyphs (part_000:44-50, as called at 77, 92).
PathGlyphs == {"/", ".", "a"}
Paths == UNION {[1..n -> PathGlyphs] : n \in 1..MaxPathLen}
Cwds == { <<"/">>, <<"/", "a">>, <<"/", "a", "/">>, <<"/", "a", "/", "b">> }

ResolveInit ==
  /\ fs = InitialFs
  /\ hd = [h \in H |-> Fresh]
  /\ nlines = 0
  /\ faults = 0
  /\ cwd \in Cwds
  /\ proc = [Running EXCEPT !.user = <<"u">>]
  /\ term = <<Out("Welcome", <<"u">>), CwdLine(cwd)>>

resolve(target) ==
  /\ proc.st = "running"
  /\ nlines = 0
  /\ nlines' = 1
  /\ \E dest \in {safeResolve(target, cwd)} :
       hd' = [hd EXCEPT ![1] = [Fresh EXCEPT !.pc = "done", !.a1 = target,
                                             !.p1 = dest, !.base = cwd]]
  /\ UNCHANGED <<cwd, fs, proc, term, faults>>

ResolveNext == \E target \in Paths : resolve(target)
ResolveSpec == ResolveInit /\ [][ResolveNext]_vars

\* Sessions of the reading commands, started with any of the command lines.
StartInit == Startup(StartArgvs)
StartSpec == StartInit /\ [][ReadNext]_vars

\* ------------------------------------------------------------------ properties
\* path.parse(os.homedir()).root: the root captured at process start.
RootOfStart == parseRoot(HomeDir)

\* Handler h has started and handleLine has not returned yet.
InFlight(h) == hd[h].pc \notin {"idle", "ret", "done", "end"}
\* Handler h is the one that takes the step.
Steps(h) == hd'[h] # hd[h]
\* What a finished command printed: one result line, then the cwd line.
Printed(h, o) ==
  /\ Len(hd[h].out) = 2
  /\ hd[h].out[1] = o
  /\ hd[h].out[2].t = "You are currently in"

OneArg == { <<"cd">>, <<"cat">>, <<"add">>, <<"mkdir">>, <<"rm">>, <<"hash">>, <<"os">> }
TwoArgs == { <<"rn">>, <<"cp">>, <<"mv">>, <<"compress">>, <<"decompress">> }

\* An absolute path with no ".", ".." or empty segment (one trailing separator
\* apart) at or below root.
NormalizedUnder(p, root) ==
  /\ isAbsolute(p)
  /\ StartsWith(p, root)
  /\ LET segs == SplitOn(SubSeq(p, 2, Len(p)), "/")
     IN  \A i \in 1..Len(segs) :
           /\ segs[i] \notin {Dot, DotDot}
           /\ segs[i] = <<>> => i = Len(segs)

\* C1: after every prefix of every run of commands, cwd is an absolute
\* normalized path at or below the root captured at start, and an `up` issued
\* while cwd is that root leaves cwd unchanged.
C1_Confinement ==
  /\ [](proc.by # "username" => NormalizedUnder(cwd, RootOfStart))
  /\ [][\A h \in H :
          (cwd = RootOfStart /\ hd[h].pc = "idle" /\ hd'[h].cmd = <<"up">>)
            => cwd' = cwd]_vars

\* C1 witness: an `up` was issued at the root, and cwd is still the root.
C1_Witness ==
  \E h \in H : hd[h].cmd = <<"up">> /\ hd[h].base = RootOfStart /\ cwd = RootOfStart

\* C2: every dispatched command eventually finishes, having printed the cwd
\* line exactly once, as its last output.
C2_UniformReporting ==
  \A h \in H :
    (hd[h].cmd # <<>>)
      ~> (/\ hd[h].pc = "done"
          /\ Last(hd[h].out).t = "You are currently in"
          /\ \A i \in 1..(Len(hd[h].out) - 1) :
               hd[h].out[i].t # "You are currently in")

\* C3: the process exits only through the exit keyword, an interrupt, or the
\* missing-username startup error; no command's failure ends it.
C3_OnlyExitPaths ==
  proc.st = "exited" => proc.by \in {"keyword", "sigint", "username"}

\* C4: at most one handler is in flight at any moment.
C4_OneAtATime == Cardinality({h \in H : InFlight(h)}) <= 1

\* C5: while a cd awaits the stat of the destination it resolved against cwd,
\* no other command writes cwd.
C5_NoConcurrentCwdWrite ==
  \A h \in H : hd[h].pc = "cd_stat" => cwd = hd[h].base

\* The commands whose one path argument must name a regular file.
FileCmds == { <<"cat">>, <<"rm">>, <<"hash">> }
\* The commands whose first path argument must name a regular file.
SourceCmds == { <<"cp">>, <<"mv">>, <<"compress">>, <<"decompress">> }

\* Command h (cd, cat, rm or hash, with a path argument) finished after its
\* stat found no entry at the resolved path.
MissingTarget(h) ==
  /\ hd[h].pc = "done"
  /\ hd[h].cmd \in FileCmds \cup { <<"cd">> }
  /\ Len(hd[h].a1) > 0
  /\ hd[h].st1 = "ENOENT"

\* The steps of a cd, cat, rm or hash that has not seen its path exist change
\* neither cwd nor the filesystem.
MissingTargetFrame ==
  \A h \in H :
    (/\ Steps(h)
     /\ hd'[h].cmd \in FileCmds \cup { <<"cd">> }
     /\ hd'[h].st1 \in {"", "ENOENT"})
      => (cwd' = cwd /\ fs' = fs)

WrongKind(h) ==
  /\ hd[h].pc = "done"
  /\ \/ hd[h].cmd \in FileCmds \cup SourceCmds /\ hd[h].st1 = "dir"
     \/ hd[h].cmd = <<"cd">> /\ hd[h].st1 = "file"

\* cp or mv h finished, given two arguments of which the second resolves to
\* no directory.
BadDestination(h) ==
  /\ hd[h].pc = "done"
  /\ hd[h].cmd \in { <<"cp">>, <<"mv">> }
  /\ Len(hd[h].a1) > 0 /\ Len(hd[h].a2) > 0
  /\ ~IsDir(fs, safeResolve(hd[h].a2, hd[h].base))

\* cp or mv h finished after the stat of its source succeeded and the stat of
\* its destination found no directory.
BadDestinationSeen(h) ==
  /\ hd[h].pc = "done"
  /\ hd[h].cmd \in { <<"cp">>, <<"mv">> }
  /\ hd[h].st1 = "file"
  /\ hd[h].st2 \in {"ENOENT", "ENOTDIR", "file"}

TooFewArgs(r) ==
  \/ r.cmd \in OneArg /\ Len(r.a1) = 0
  \/ r.cmd \in TwoArgs /\ (Len(r.a1) = 0 \/ Len(r.a2) = 0)

\* C8: a command given fewer arguments than it requires prints "Invalid
\* input", then the cwd line, issues no filesystem call, and leaves the
\* filesystem and cwd as they are.
C8_Arity ==
  /\ [](\A h \in H :
          (hd[h].pc = "done" /\ TooFewArgs(hd[h]))
            => (Printed(h, InvalidInput) /\ ~hd[h].io /\ ~hd[h].mut))
  /\ [][\A h \in H :
          (Steps(h) /\ TooFewArgs(hd'[h])) => (cwd' = cwd /\ fs' = fs)]_vars

\* C8 witness: an rn with one argument and an os with none have finished.
C8_Witness ==
  /\ \E h \in H : hd[h].pc = "done" /\ hd[h].cmd = <<"rn">>
                  /\ Len(hd[h].a1) > 0 /\ Len(hd[h].a2) = 0
  /\ \E h \in H : hd[h].pc = "done" /\ hd[h].cmd = <<"os">> /\ Len(hd[h].a1) = 0

\* C9: a step that changes cwd is a step of an up or a cd.
C9_OnlyUpAndCdWriteCwd ==
  [][cwd' # cwd =>
       \E h \in H : Steps(h) /\ hd'[h].cmd \in { <<"up">>, <<"cd">> }]_vars

\* C9 witness: a command other than up and cd has finished while cwd is
\* somewhere else than at start.
C9_Witness ==
  /\ cwd # HomeDir
  /\ \E h \in H : hd[h].pc = "done" /\ hd[h].cmd \in { <<"ls">>, <<"mkdir">>, <<"mv">> }

\* C10: a cd assigns cwd only when its stat reports a directory, and then the
\* destination it resolved; every other step of a cd leaves cwd as it is.
C10_FailedCdKeepsCwd ==
  [][\A h \in H :
       (Steps(h) /\ hd'[h].cmd = <<"cd">>)
         => IF hd[h].pc = "cd_stat" /\ hd'[h].st1 = "dir"
              THEN cwd' = hd[h].p1
            ELSE cwd' = cwd]_vars

\* C10 witness: a cd to a file, a cd to a missing path and a cd without an
\* argument have finished.
C10_Witness ==
  /\ \E h \in H : hd[h].pc = "done" /\ hd[h].cmd = <<"cd">>
                  /\ hd[h].st1 \in {"file", "ENOENT", "EACCES"}
  /\ \E h \in H : hd[h].pc = "done" /\ hd[h].cmd = <<"cd">> /\ Len(hd[h].a1) = 0

\* ------------------------------------------------------------------ mv, exit, startup
\* The path mv, cp give their destination: the destination directory joined
\* with the basename of the source, both as the command resolved them.
DestPath(r) == join(safeResolve(r.a2, r.base), basename(r.p1))

\* Command h returns from its handler in this step, having printed no error.
Completes(h, cmd) ==
  /\ hd'[h].cmd = cmd
  /\ hd[h].pc \notin {"idle", "fin"}
  /\ hd'[h].pc = "fin"
  /\ hd'[h].out = <<>>

\* C11: when a mv of a regular file to an existing directory completes without
\* printing an error, the source path names no file any more and the
\* destination directory holds a file of the source's basename with the
\* content the source had.
C11_MoveSemantics ==
  [][\A h \in H :
       Completes(h, <<"mv">>)
         => /\ ~IsFile(fs', hd[h].p1)
            /\ IsFile(fs', DestPath(hd[h]))
            /\ fs'[DestPath(hd[h])].data = hd[h].src0]_vars

\* The exit keywords, and the input lines that are one when trimmed.
ExitWords == { <<"exit">>, <<".", "exit">> }
ExitLines == { l \in Lines : Trim(l) \in ExitWords }

\* The farewell line of this session.
Farewell == Out("Thank you", proc.user)
\* The process is in its terminal state with success status: the farewell is
\* the last line the session printed, and it was printed once.
ExitedWithFarewell ==
  /\ proc.st = "exited" /\ proc.code = 0
  /\ Last(term) = Farewell
  /\ Cardinality({i \in 1..Len(term) : term[i].t = "Thank you"}) = 1

\* C12: a line that is exactly an exit keyword when trimmed ends the process
\* with status 0 after printing the farewell once and no cwd line (no handler
\* is started for it); once the process has exited no line is dispatched and
\* nothing is printed; a line that only starts with the keyword is dispatched
\* as a command and does not exit.
C12_ExitKeyword ==
  /\ [][(\E l \in ExitLines : handleLine(nlines + 1, l))
          => /\ proc'.st = "exited" /\ proc'.code = 0
             /\ term' = Append(term, Farewell)
             /\ hd' = hd /\ cwd' = cwd /\ fs' = fs]_vars
  /\ [](proc.by = "keyword" => ExitedWithFarewell)
  /\ [][proc.st = "exited" => vars' = vars]_vars
  /\ [][\A h \in H :
          (Steps(h) /\ hd'[h].cmd \in ExitWords)
            => (proc' = proc /\ term' = term)]_vars

\* C12 witness: `exit now` was dispatched as a command and finished, and then
\* an exit keyword ended the process.
C12_Witness ==
  /\ proc.by = "keyword"
  /\ \E h \in H : hd[h].cmd = <<"exit">> /\ hd[h].pc = "done"

\* Handler h is suspended on a stat or on stream I/O.
Suspended(h) ==
  hd[h].pc \in {"cd_stat", "cat_stat", "rm_stat", "hash_stat", "cp_stat1",
                "cp_stat2", "mv_stat1", "mv_stat2", "cmp_stat1", "cmp_stat2",
                "dec_stat1", "dec_stat2", "cat_read", "hash_read", "stream"}

\* C13: an interrupt can arrive in every state of the running interpreter; it
\* ends the process with status 0 after the same farewell line as the exit
\* keyword, printed once, and afterwards no command prints anything.
C13_Interrupt ==
  /\ [](proc.st = "running" => ENABLED sigint)
  /\ [][sigint => /\ proc'.st = "exited" /\ proc'.code = 0
                  /\ Last(term') = Farewell
                  /\ Cardinality({i \in 1..Len(term') : term'[i].t = "Thank you"}) = 1
                  /\ hd' = hd]_vars
  /\ [][proc.by = "sigint" =>
          (term' = term /\ \A h \in H : hd'[h].out = hd[h].out)]_vars

\* C13 witness: the interrupt arrived while one handler was suspended on
\* stream I/O and another on a stat.
C13_Witness ==
  /\ proc.by = "sigint" /\ proc.st = "exited"
  /\ \E h \in H : hd[h].pc = "stream"
  /\ \E h \in H : Suspended(h) /\ hd[h].pc # "stream"

\* The names the command line gives: what follows "--username=" in each
\* argument of that form with a non-empty name, in the order given.
GivenNames(argv) ==
  LET hits == {i \in 1..Len(argv) :
                 StartsWith(argv[i], <<"--username", "=">>) /\ Len(argv[i]) > 2}
  IN  [k \in 1..Cardinality(hits) |->
         SubSeq(argv[Kth(hits, k)], 3, Len(argv[Kth(hits, k)]))]

\* C14: without an argument --username=<non-empty name> the process has
\* printed the usage message only and exited with non-zero status, and no line
\* is ever read; with one, the first two lines printed are the welcome line
\* for that name and the cwd line, already there before any line is read.
C14_MandatoryUsername ==
  LET names == GivenNames(proc.argv)
  IN  IF Len(names) = 0
        THEN /\ proc.st = "exited" /\ proc.code # 0
             /\ term = <<Out("usage", <<>>)>>
             /\ nlines = 0
      ELSE /\ Len(term) >= 2
           /\ term[1] = Out("Welcome", names[1])
           /\ term[2] = CwdLine(HomeDir)

\* The command names the switch of handleLine knows (part_000:321-362).
Registered ==
  { <<"up">>, <<"cd">>, <<"ls">>, <<"cat">>, <<"add">>, <<"mkdir">>, <<"rn">>,
    <<"cp">>, <<"mv">>, <<"rm">>, <<"os">>, <<"hash">>, <<"compress">>,
    <<"decompress">> }

\* C15: a line whose first token is no registered command name (and which is
\* no exit keyword) prints "Invalid input" and then the cwd line, whatever its
\* arguments, and changes neither cwd nor the filesystem.
C15_UnknownCommand ==
  [][\A h \in H :
       (Steps(h) /\ hd[h].pc = "idle" /\ hd'[h].cmd # <<>>
                 /\ hd'[h].cmd \notin Registered)
         => /\ hd'[h].out = <<InvalidInput, CwdLine(cwd)>>
            /\ hd'[h].pc = "done"
            /\ ~hd'[h].io
            /\ cwd' = cwd /\ fs' = fs]_vars

\* C15 witness: `foo f` and `exit now` were both handled as unknown commands.
C15_Witness ==
  /\ \E h \in H : hd[h].pc = "done" /\ hd[h].cmd = <<"foo">> /\ hd[h].a1 = <<"f">>
  /\ \E h \in H : hd[h].pc = "done" /\ hd[h].cmd = <<"exit">>

\* C16: a successful rn leaves the renamed entry in the parent directory of
\* the old path, whatever the new name holds, and the old path names nothing
\* any more.
C16_RenameInPlace ==
  [][\A h \in H :
       Completes(h, <<"rn">>)
         => /\ ~Exists(fs', hd[h].p1)
            /\ Exists(fs', hd[h].p2)
            /\ dirname(Key(hd[h].p2)) = dirname(Key(hd[h].p1))]_vars

\* C17: the open of `add <name>` creates an empty regular file at
\* cwd/<name> and touches nothing else when no entry of that name exists (and
\* the collaborator raises no error); when one exists it prints "Operation
\* failed" and leaves every entry and its content as it is.
C17_ExclusiveCreate ==
  [][\A h \in H :
       (Steps(h) /\ hd[h].pc = "add_open")
         => LET p == hd[h].p1
            IN  /\ p = join(hd[h].base, hd[h].a1)
                /\ IF ~Exists(fs, p) /\ faults' = faults
                     THEN /\ hd'[h].out = <<>>
                          /\ DOMAIN fs' = (DOMAIN fs) \cup {p}
                          /\ fs'[p] = [k |-> "file", data |-> <<>>]
                          /\ dirname(p) = Key(hd[h].base)
                          /\ \A q \in DOMAIN fs : fs'[q] = fs[q]
                   ELSE /\ hd'[h].out = <<OperationFailed>>
                        /\ fs' = fs]_vars

\* C17 witness: an add of a new name has created its file, and an add of the
\* name of an existing file with content has failed.
C17_Witness ==
  /\ \E h \in H : hd[h].cmd = <<"add">> /\ hd[h].mut /\ IsFile(fs, hd[h].p1)
  /\ \E h \in H : /\ hd[h].cmd = <<"add">> /\ hd[h].pc \in {"fin", "done"}
                  /\ Len(hd[h].out) > 0 /\ hd[h].out[1] = OperationFailed
                  /\ IsFile(fs, hd[h].p1) /\ Len(fs[hd[h].p1].data) > 0

\* C18: resolving an already resolved path again, against the same cwd, gives
\* the same path, and every resolved path starts with the root of cwd.
C18_ResolveIdempotent ==
  \A h \in H :
    hd[h].pc = "done"
      => /\ safeResolve(hd[h].p1, hd[h].base) = hd[h].p1
         /\ StartsWith(hd[h].p1, parseRoot(hd[h].base))

\* C18 witness: a relative path that climbs with ".." was resolved below cwd's
\* parent, and is its own resolution.
C18_Witness ==
  \E h \in H :
    /\ hd[h].pc = "done"
    /\ hd[h].a1 = <<".", ".", "/", "a">>
    /\ hd[h].base = <<"/", "a", "/", "b">>
    /\ hd[h].p1 = <<"/", "a", "/", "a">>

\* Command h has printed "Invalid input".
SaidInvalid(h) == \E i \in 1..Len(hd[h].out) : hd[h].out[i] = InvalidInput

\* C19: a command that prints "Invalid input" has performed no mutating
\* filesystem operation: every step of a command that changes the filesystem
\* marks the command, and no marked command prints "Invalid input".
C19_InvalidInputNoPartialState ==
  /\ [](\A h \in H : SaidInvalid(h) => ~hd[h].mut)
  /\ [][\A h \in H : (Steps(h) /\ fs' # fs) => hd'[h].mut]_vars
  /\ [][\A h \in H :
          (Steps(h) /\ ~SaidInvalid(h) /\ hd'[h].pc # "end"
                    /\ \E i \in 1..Len(hd'[h].out) : hd'[h].out[i] = InvalidInput)
            => fs' = fs]_vars

\* C19 witness: a cp and a compress have printed "Invalid input" after their
\* stats, the one for its destination and the other for its source.
C19_Witness ==
  /\ \E h \in H : /\ hd[h].cmd = <<"cp">> /\ hd[h].pc = "done"
                  /\ hd[h].st1 = "file" /\ hd[h].st2 = "ENOENT"
                  /\ SaidInvalid(h)
  /\ \E h \in H : /\ hd[h].cmd = <<"compress">> /\ hd[h].pc = "done"
                  /\ hd[h].st1 = "dir" /\ SaidInvalid(h)

\* C20: no step of a cp, compress or decompress changes its source file: the
\* source is a regular file with the same content after the step as before,
\* whatever the destination resolves to.
C20_SourcePreserved ==
  [][\A h \in H :
       (/\ Steps(h)
        /\ hd[h].cmd \in { <<"cp">>, <<"compress">>, <<"decompress">> }
        /\ hd[h].st1 = "file"
        /\ IsFile(fs, hd[h].p1))
         => /\ IsFile(fs', hd[h].p1)
            /\ fs'[hd[h].p1].data = fs[hd[h].p1].data]_vars

\* Path p names a regular file with the content the source of h had when
\* h's stat found it.
HoldsOriginal(f, h, p) == IsFile(f, p) /\ f[p].data = hd[h].src0

\* h is a mv that found its source to be a regular file.
MvOfFile(h) == hd[h].cmd = <<"mv">> /\ hd[h].st1 = "file"

\* C21: no step of a mv loses the data: when source or destination held the
\* complete original content before the step, one of them holds it after;
\* the source is removed only by the rename or by the unlink that follows the
\* finished copy; and a step of mv that prints "Operation failed" leaves the
\* source in place with its original content.
C21_MoveNeverLosesData ==
  /\ [][\A h \in H :
          (/\ Steps(h) /\ MvOfFile(h)
           /\ \/ HoldsOriginal(fs, h, hd[h].p1)
              \/ HoldsOriginal(fs, h, DestPath(hd[h])))
            => \/ HoldsOriginal(fs', h, hd[h].p1)
               \/ HoldsOriginal(fs', h, DestPath(hd[h]))]_vars
  /\ [][\A h \in H :
          (/\ Steps(h) /\ MvOfFile(h)
           /\ IsFile(fs, hd[h].p1) /\ ~IsFile(fs', hd[h].p1))
            => hd[h].pc \in {"mv_rename", "mv_unlink"}]_vars
  /\ [][\A h \in H :
          (/\ Steps(h) /\ MvOfFile(h)
           /\ HoldsOriginal(fs, h, hd[h].p1)
           /\ hd'[h].out = Append(hd[h].out, OperationFailed))
            => HoldsOriginal(fs', h, hd[h].p1)]_vars

====
